---- MODULE Spec2Model ----
(***************************************************************************)
(* Longform recognition of indralab/deft: the search trie built from a     *)
(* grounding map (deft/recognize.py and adeft/recognize.py), the reverse   *)
(* token search, Recognizer.recognize of the deft revision and             *)
(* BaseRecognizer.strip_defining_patterns of the adeft revision.           *)
(*                                                                         *)
(* A text is a sequence of tokens (whitespace is not modelled: the result  *)
(* of strip_defining_patterns is whitespace-normalised anyway).  A         *)
(* longform string is the sequence of its tokens.  Python's None is the    *)
(* empty tuple and a value v that is not None is the 1-tuple <<v>>.        *)
(***************************************************************************)
EXTENDS Naturals, Integers, Sequences, FiniteSets, TLC

VARIABLES
    rev,        \* which revision the recognizer object is: "deft" or "adeft"
    grounding_map, \* self.grounding_map in iteration order: <<key, grounding>> pairs
    idx,        \* entries of grounding_map the loop of _init_trie has consumed
    trie,       \* self._trie: root-to-node path |-> the node's longform/grounding
    op,         \* the last operation that ran
    arg,        \* its argument
    ret,        \* its return value
    scanTokens, \* strip_defining_patterns' loop: tokens, the fragment's tokens
    numWords,   \* strip_defining_patterns' loop: num_words
    si,         \* strip_defining_patterns' loop: i
    sj,         \* strip_defining_patterns' loop: j
    scanPc      \* strip_defining_patterns' loop: "idle", "loop", "done", "break", "IndexError"

vars == <<rev, grounding_map, idx, trie, op, arg, ret, scanTokens, numWords, si, sj, scanPc>>

trieVars == <<rev, grounding_map, idx, trie>>
scanVars == <<scanTokens, numWords, si, sj, scanPc>>

----------------------------------------------------------------------------
(* Bounds *)

MaxLen == 2         \* tokens in a longform
MaxEntries == 2     \* entries of a grounding map
MaxCandidates == 2  \* candidates the processor extracts from one text
MaxTextItems == 5   \* words, parentheses and "(GLC)" patterns in a text
MaxScanTokens == 101 \* tokens of a fragment handed to the backward scan alone

\* _search is handed up to one token more than the longest longform
MaxQuery == MaxLen + 1

----------------------------------------------------------------------------
(* Values *)

None == <<>>
Some(v) == <<v>>

RawTokens == {"cat", "cats", "dog"}
Groundings == {"HGNC:1", "HGNC:2"}

\* EnglishStemmer.stem: strips the plural suffix and lowercases
Stem(token) ==
    CASE token = "cats" -> "cat"
      [] token = "GLC" -> "glc"
      [] OTHER -> token

Stems == {Stem(t) : t \in RawTokens}

SeqsUpTo(S, n) == UNION {[1..k -> S] : k \in 0..n}

Reverse(s) == [k \in 1..Len(s) |-> s[Len(s) + 1 - k]]

StemAll(s) == [k \in 1..Len(s) |-> Stem(s[k])]

IsPrefix(p, s) == Len(p) <= Len(s) /\ SubSeq(s, 1, Len(p)) = p

----------------------------------------------------------------------------
(* _TrieNode and _init_trie *)

\* _TrieNode(): a trie that is only its root, whose longform/grounding is None
RootOnly == (<<>> :> None)

\* the edges one grounding_map key is inserted under
Edges(r, key) == IF r = "adeft" THEN Reverse(StemAll(key)) ELSE key

\* what a terminal node stores for an entry: the longform (adeft), the grounding (deft)
Stored(r, entry) == IF r = "adeft" THEN entry[1] ELSE entry[2]

\* the inner loop of _init_trie from position `index` (1-based) at node `current`
RECURSIVE InsertFrom(_, _, _, _, _)
InsertFrom(t, edges, value, index, current) ==
    IF index > Len(edges) THEN t
    ELSE LET child == Append(current, edges[index]) IN
         IF child \notin DOMAIN t
         THEN LET new == IF index = Len(edges) THEN Some(value) ELSE None
              IN InsertFrom(t @@ (child :> new), edges, value, index + 1, child)
         ELSE InsertFrom(t, edges, value, index + 1, child)

\* a builder that stores the value at the end of the path whether or not the
\* node was already there (and so also at the root, for an empty key)
InsertKeyMarkingLast(t, edges, value) ==
    [InsertFrom(t, edges, value, 1, <<>>) EXCEPT ![edges] = Some(value)]

\* one iteration of `for longform, grounding in self.grounding_map.items()`
InsertKey(t, edges, value) == InsertFrom(t, edges, value, 1, <<>>)

----------------------------------------------------------------------------
(* _search *)

\* AdeftRecognizer._search: the loop from token `k` at node `current`
RECURSIVE AdeftSearchFrom(_, _, _, _)
AdeftSearchFrom(t, tokens, k, current) ==
    IF k > Len(tokens) THEN None
    ELSE LET child == Append(current, tokens[k]) IN
         IF child \notin DOMAIN t THEN None
         ELSE IF t[child] = None THEN AdeftSearchFrom(t, tokens, k + 1, child)
         ELSE t[child]

AdeftSearch(t, tokens) == AdeftSearchFrom(t, tokens, 1, <<>>)

\* Recognizer._search of the deft revision
RECURSIVE DeftSearchFrom(_, _, _, _)
DeftSearchFrom(t, tokens, k, current) ==
    IF k > Len(tokens) THEN None
    ELSE LET child == Append(current, tokens[k]) IN
         IF child \notin DOMAIN t THEN None
         ELSE IF t[child] # None THEN t[child]
         ELSE DeftSearchFrom(t, tokens, k + 1, child)

DeftSearch(t, tokens) == DeftSearchFrom(t, tokens, 1, <<>>)

SearchTrie(r, t, tokens) ==
    IF r = "adeft" THEN AdeftSearch(t, tokens) ELSE DeftSearch(t, tokens)

----------------------------------------------------------------------------
(* recognize *)

\* the tokens _search is handed for one candidate: reversed, then stemmed
CandidateKey(candidate) == StemAll(Reverse(candidate))

\* Recognizer.recognize (deft): the set built from the result of every search
DeftGroundings(t, candidates) ==
    {DeftSearch(t, CandidateKey(candidates[c])) : c \in 1..Len(candidates)}

\* `groundings.pop() if groundings else None`: pop() gives any element
DeftRecognizeResults(t, candidates) ==
    IF DeftGroundings(t, candidates) = {} THEN {None} ELSE DeftGroundings(t, candidates)

\* AdeftRecognizer._post_process: grounding_map[longform]
PostProcess(g, longform) ==
    g[CHOOSE k \in 1..Len(g) : g[k][1] = longform][2]

\* BaseRecognizer.recognize (adeft): `if longform:` keeps what is neither None nor ""
AdeftGroundings(g, t, candidates) ==
    {PostProcess(g, AdeftSearch(t, CandidateKey(candidates[c]))[1]) :
        c \in {d \in 1..Len(candidates) :
                /\ AdeftSearch(t, CandidateKey(candidates[d])) # None
                /\ AdeftSearch(t, CandidateKey(candidates[d]))[1] # <<>>}}

----------------------------------------------------------------------------
(* strip_defining_patterns *)

Shortform == "GLC"

\* string.punctuation, as far as the tokens of the model go
IsPunct(token) == token \in {"(", ")"}

\* re.match(r'\w+', token)
IsWord(token) == token \notin {"(", ")"}

\* the tokens of "(<shortform>)"
DefiningPattern == <<"(", Shortform, ")">>

MatchesAt(text, needle, p) ==
    p + Len(needle) - 1 <= Len(text) /\ SubSeq(text, p, p + Len(needle) - 1) = needle

\* get_candidate_fragments: for every "(<shortform>)" the text before it.  The
\* texts of the model are one sentence and shorter than the window.
RECURSIVE FragmentsFrom(_, _)
FragmentsFrom(text, p) ==
    IF p > Len(text) THEN <<>>
    ELSE IF MatchesAt(text, DefiningPattern, p)
         THEN <<SubSeq(text, 1, p - 1)>> \o FragmentsFrom(text, p + Len(DefiningPattern))
         ELSE FragmentsFrom(text, p + 1)

GetCandidateFragments(text) == FragmentsFrom(text, 1)

\* the tokens handed to _search for a fragment: reversed, punctuation dropped, stemmed
FragmentKey(tokens) == StemAll(SelectSeq(Reverse(tokens), LAMBDA x : ~IsPunct(x)))

\* tokens[j] for a Python index j: valid from -len to len - 1
PyIndexOk(tokens, j) == -Len(tokens) <= j /\ j <= Len(tokens) - 1
PyAt(tokens, j) == IF j >= 0 THEN tokens[j + 1] ELSE tokens[Len(tokens) + j + 1]

\* tokens[:stop] for a Python stop
PySliceTo(tokens, stop) ==
    LET n == Len(tokens)
        e == IF stop < 0 THEN (IF n + stop < 0 THEN 0 ELSE n + stop)
             ELSE (IF stop > n THEN n ELSE stop)
    IN SubSeq(tokens, 1, e)

\* the bound of `if i > 100: break`
SafetyBound == 100

\* one pass of the body of `while i < num_words`: the new <<i, j, broke>>
ScanBody(tokens, i, j) ==
    LET i2 == IF IsWord(PyAt(tokens, j)) THEN i + 1 ELSE i
    IN <<i2, j - 1, i2 > SafetyBound>>

\* the loop: the j it ends with, and whether tokens[j] raised IndexError
RECURSIVE ScanLoop(_, _, _, _)
ScanLoop(tokens, num_words, i, j) ==
    IF ~(i < num_words) THEN [raised |-> FALSE, j |-> j]
    ELSE IF ~PyIndexOk(tokens, j) THEN [raised |-> TRUE, j |-> j]
    ELSE LET b == ScanBody(tokens, i, j)
         IN IF b[3] THEN [raised |-> FALSE, j |-> b[2]]
            ELSE ScanLoop(tokens, num_words, b[1], b[2])

\* str.replace: every occurrence, left to right, without overlap
RECURSIVE ReplaceFrom(_, _, _, _)
ReplaceFrom(text, old, new, p) ==
    IF p > Len(text) THEN <<>>
    ELSE IF MatchesAt(text, old, p)
         THEN new \o ReplaceFrom(text, old, new, p + Len(old))
         ELSE <<text[p]>> \o ReplaceFrom(text, old, new, p + 1)

Replace(text, old, new) == ReplaceFrom(text, old, new, 1)

\* the body of `for fragment in fragments` on the text so far
StripFragment(t, text, fragment) ==
    LET longform == AdeftSearch(t, FragmentKey(fragment)) IN
    IF longform = None THEN [raised |-> FALSE, text |-> text]
    ELSE LET scan == ScanLoop(fragment, Len(longform[1]), 0, Len(fragment) - 1)
         IN IF scan.raised THEN [raised |-> TRUE, text |-> text]
            ELSE [raised |-> FALSE,
                  text |-> Replace(text, fragment, PySliceTo(fragment, scan.j + 1))]

RECURSIVE StripFragments(_, _, _, _)
StripFragments(t, text, fragments, f) ==
    IF f > Len(fragments) THEN [raised |-> FALSE, text |-> text]
    ELSE LET step == StripFragment(t, text, fragments[f])
         IN IF step.raised THEN step
            ELSE StripFragments(t, step.text, fragments, f + 1)

\* strip_defining_patterns: the fragments, then every "(<shortform>)" becomes
\* the shortform.  `raised` says that the loop's IndexError left the call.
StripDefiningPatterns(t, text) ==
    LET stripped == StripFragments(t, text, GetCandidateFragments(text), 1)
    IN IF stripped.raised THEN stripped
       ELSE [raised |-> FALSE,
             text |-> Replace(stripped.text, DefiningPattern, <<Shortform>>)]

----------------------------------------------------------------------------
(* State *)

KeysOf(r) == IF r = "adeft" THEN SeqsUpTo(RawTokens, MaxLen) ELSE SeqsUpTo(Stems, MaxLen)

\* The groundings a map may give a key.  The deft trie stores them, so every
\* choice is drawn; the adeft trie stores the longform, and the grounding is
\* read by _post_process alone, so one fixed choice per longform is drawn.
GroundingsFor(r, key) ==
    IF r = "deft" THEN Groundings
    ELSE IF Len(key) <= 1 THEN {"HGNC:1"} ELSE {"HGNC:2"}

EntriesOf(r) == {e \in KeysOf(r) \X Groundings : e[2] \in GroundingsFor(r, e[1])}

\* a dict: keys are unique
GroundingMaps(r) ==
    {g \in UNION {[1..n -> EntriesOf(r)] : n \in 0..MaxEntries} :
        \A a, b \in 1..Len(g) : a # b => g[a][1] # g[b][1]}

Built == idx = Len(grounding_map)

\* The constructor has returned and no operation has been applied yet.  The
\* operations leave the recognizer as it is, so each behaviour applies one.
Fresh == Built /\ op \in {"new", "insert"}

Init ==
    /\ rev \in {"deft", "adeft"}
    /\ grounding_map \in GroundingMaps(rev)
    /\ idx = 0
    /\ trie = RootOnly
    /\ op = "new"
    /\ arg = <<>>
    /\ ret = None
    /\ scanTokens = <<>>
    /\ numWords = 0
    /\ si = 0
    /\ sj = 0
    /\ scanPc = "idle"

\* _init_trie: one iteration of the loop over grounding_map.items()
InsertEntry ==
    /\ idx < Len(grounding_map)
    /\ trie' = InsertKey(trie, Edges(rev, grounding_map[idx + 1][1]), Stored(rev, grounding_map[idx + 1]))
    /\ idx' = idx + 1
    /\ op' = "insert"
    /\ arg' = grounding_map[idx + 1][1]
    /\ ret' = None
    /\ UNCHANGED <<rev, grounding_map>>
    /\ UNCHANGED scanVars

\* _search(tokens)
Search ==
    /\ Fresh
    /\ \E tokens \in SeqsUpTo(Stems, MaxQuery) :
        /\ op' = "search"
        /\ arg' = tokens
        /\ ret' = SearchTrie(rev, trie, tokens)
    /\ UNCHANGED trieVars
    /\ UNCHANGED scanVars

Next == InsertEntry \/ Search

Spec == Init /\ [][Next]_vars

\* what the processor (deft) or get_candidate (adeft) extracts from one text:
\* a list of candidates, each a non-empty list of tokens
CandidateLists == SeqsUpTo(SeqsUpTo(RawTokens, MaxLen) \ {<<>>}, MaxCandidates)

\* Recognizer.recognize(text) of the deft revision
DeftRecognize ==
    /\ Fresh
    /\ rev = "deft"
    /\ \E candidates \in CandidateLists :
        /\ op' = "recognize"
        /\ arg' = candidates
        /\ ret' \in DeftRecognizeResults(trie, candidates)
    /\ UNCHANGED trieVars
    /\ UNCHANGED scanVars

\* BaseRecognizer.recognize(text) of the adeft revision
AdeftRecognize ==
    /\ Fresh
    /\ rev = "adeft"
    /\ \E candidates \in CandidateLists :
        /\ op' = "recognize"
        /\ arg' = candidates
        /\ ret' = AdeftGroundings(grounding_map, trie, candidates)
    /\ UNCHANGED trieVars
    /\ UNCHANGED scanVars

NextRecognize == InsertEntry \/ DeftRecognize \/ AdeftRecognize

SpecRecognize == Init /\ [][NextRecognize]_vars

\* the pieces a text is put together from
TextItems == {<<"cats">>, <<"dog">>, <<Shortform>>, <<"(">>, <<")">>, DefiningPattern}

RECURSIVE Flatten(_)
Flatten(items) == IF items = <<>> THEN <<>> ELSE Head(items) \o Flatten(Tail(items))

Texts == {Flatten(items) : items \in SeqsUpTo(TextItems, MaxTextItems)}

InitStrip == Init /\ rev = "adeft"

\* strip_defining_patterns(text)
Strip ==
    /\ Fresh
    /\ rev = "adeft"
    /\ \E text \in Texts :
        /\ op' = "strip"
        /\ arg' = text
        /\ ret' = StripDefiningPatterns(trie, text)
    /\ UNCHANGED trieVars
    /\ UNCHANGED scanVars

\* strip_defining_patterns applied to the text the last call returned
StripAgain ==
    /\ op = "strip"
    /\ ~ret.raised
    /\ op' = "restrip"
    /\ arg' = ret.text
    /\ ret' = StripDefiningPatterns(trie, ret.text)
    /\ UNCHANGED trieVars
    /\ UNCHANGED scanVars

NextStrip == InsertEntry \/ Strip \/ StripAgain

SpecStrip == InitStrip /\ [][NextStrip]_vars

\* The fragments the backward scan is run on by itself: n tokens, all of them
\* words, or every second one a parenthesis.
ScanFragments ==
    {[k \in 1..n |-> IF mixed /\ k % 2 = 0 THEN "(" ELSE "cats"] :
        n \in 0..MaxScanTokens, mixed \in BOOLEAN}

\* the values of num_words it is run with
ScanNumWords == {0, 1, 2, SafetyBound - 1, SafetyBound, SafetyBound + 1, SafetyBound + 2}

\* strip_defining_patterns at `i = 0; j = len(tokens) - 1`, for a fragment and a
\* num_words of its own
InitScan ==
    /\ rev = "adeft"
    /\ grounding_map = <<>>
    /\ idx = 0
    /\ trie = RootOnly
    /\ op = "new"
    /\ arg = <<>>
    /\ ret = None
    /\ scanTokens \in ScanFragments
    /\ numWords \in ScanNumWords
    /\ si = 0
    /\ sj = Len(scanTokens) - 1
    /\ scanPc = "loop"

\* `while i < num_words` is false: the loop is left
ScanExit ==
    /\ scanPc = "loop"
    /\ ~(si < numWords)
    /\ scanPc' = "done"
    /\ UNCHANGED <<scanTokens, numWords, si, sj>>
    /\ UNCHANGED <<rev, grounding_map, idx, trie, op, arg, ret>>

\* tokens[j] is out of range: IndexError
ScanRaise ==
    /\ scanPc = "loop"
    /\ si < numWords
    /\ ~PyIndexOk(scanTokens, sj)
    /\ scanPc' = "IndexError"
    /\ UNCHANGED <<scanTokens, numWords, si, sj>>
    /\ UNCHANGED <<rev, grounding_map, idx, trie, op, arg, ret>>

\* one pass of the loop body, left by `break` when i has passed the bound
ScanStep ==
    /\ scanPc = "loop"
    /\ si < numWords
    /\ PyIndexOk(scanTokens, sj)
    /\ LET b == ScanBody(scanTokens, si, sj) IN
        /\ si' = b[1]
        /\ sj' = b[2]
        /\ scanPc' = IF b[3] THEN "break" ELSE "loop"
    /\ UNCHANGED <<scanTokens, numWords>>
    /\ UNCHANGED <<rev, grounding_map, idx, trie, op, arg, ret>>

NextScan == ScanExit \/ ScanRaise \/ ScanStep

SpecScan == InitScan /\ [][NextScan]_vars

----------------------------------------------------------------------------
(* The trie and its search *)

\* the edges entry k of the grounding map is inserted under
KeyEdges(k) == Edges(rev, grounding_map[k][1])

\* what the terminal node of entry k is meant to hold
KeyValue(k) == Some(Stored(rev, grounding_map[k]))

\* another entry whose (non-empty) edges are a leading part of, or equal to, p
Competes(m, p) == Len(KeyEdges(m)) > 0 /\ IsPrefix(KeyEdges(m), p)

\* entry k is the only entry with edges that lead along its own path
Alone(k) == \A m \in 1..Len(grounding_map) : m # k => ~Competes(m, KeyEdges(k))

\* C1: round trip.  Searching the built trie with the reversed, stemmed tokens
\* of a longform of the grounding map returns the value registered for that
\* longform.  Stated for the longforms no other entry competes with (non-empty,
\* no other entry's tokens are a trailing part of or equal to theirs), where
\* the shortest-suffix precedence leaves no other answer.
C1_RoundTrip ==
    op = "search" =>
        \A k \in 1..Len(grounding_map) :
            (Len(KeyEdges(k)) > 0 /\ Alone(k) /\ arg = KeyEdges(k)) => ret = KeyValue(k)

\* C2: shortest suffix wins.  When the tokens of L1 are a strict trailing part
\* of the tokens of L2, both are keys of the map and the search is handed the
\* tokens of L2, it returns the value of L1, whichever of the two was inserted
\* first.  (L1 is taken to be the shortest such key.)
C2_ShortestSuffixWins ==
    op = "search" =>
        \A k1, k2 \in 1..Len(grounding_map) :
            ( /\ Len(KeyEdges(k1)) > 0
              /\ Alone(k1)
              /\ KeyEdges(k1) # KeyEdges(k2)
              /\ IsPrefix(KeyEdges(k1), KeyEdges(k2))
              /\ arg = KeyEdges(k2) ) => ret = KeyValue(k1)

\* C7: after construction a node below the root is terminal if and only if
\* some longform's reversed stemmed token sequence is exactly its path.
C7_TerminalIffLongform ==
    Built =>
        \A p \in DOMAIN trie \ {<<>>} :
            (trie[p] # None) <=> (\E k \in 1..Len(grounding_map) : KeyEdges(k) = p)

\* entries a < b of the map that normalise to the same non-empty edges
Collide(a, b) ==
    a < b /\ Len(KeyEdges(a)) > 0 /\ KeyEdges(a) = KeyEdges(b)

\* C8: of two entries that normalise to the same token sequence, the
\* later one in iteration order overwrites the earlier, so the terminal node
\* holds the value of the last of them.
C8_LaterOverwrites ==
    Built =>
        \A a, b \in 1..Len(grounding_map) :
            (Collide(a, b) /\ ~(\E c \in 1..Len(grounding_map) : Collide(b, c)))
                => trie[KeyEdges(b)] = KeyValue(b)

\* C10: the root is never terminal, whatever the map holds, and a search with
\* no tokens returns None, in both revisions.
C10_RootNeverTerminal ==
    /\ trie[<<>>] = None
    /\ (op = "search" /\ arg = <<>>) => ret = None

\* the map holds an empty longform, the trie is built and was searched with no tokens
C10_Witness ==
    /\ Built
    /\ \E k \in 1..Len(grounding_map) : grounding_map[k][1] = <<>>
    /\ op = "search"
    /\ arg = <<>>

----------------------------------------------------------------------------
(* recognize of the deft revision *)

\* C6: Recognizer.recognize returns a grounding whenever the search of at
\* least one extracted candidate finds a longform, returns None only when no
\* candidate is extracted or none matches, and otherwise returns one of the
\* groundings found.
C6_RecognizeReturnsAFoundGrounding ==
    (op = "recognize" /\ rev = "deft") =>
        LET found == {DeftSearch(trie, CandidateKey(arg[c])) : c \in 1..Len(arg)} \ {None}
        IN IF found = {} THEN ret = None ELSE ret \in found

----------------------------------------------------------------------------
(* strip_defining_patterns *)

\* where "(<shortform>)" stands in a text
PatternStarts(text) == {p \in 1..Len(text) : MatchesAt(text, DefiningPattern, p)}

\* the text after position p + 2, the end of a pattern that starts at p
After(text, p) == SubSeq(text, p + Len(DefiningPattern), Len(text))

\* C3: on a text "<before> <L> (<S>) <after>", L a key of the grounding map
\* that the search finds and the only defining pattern of the text,
\* strip_defining_patterns returns "<before> <S> <after>": the longform and
\* the parentheses are gone and every other token is kept, in order.
C3_StripKeepsSurroundingText ==
    (op = "strip" /\ Cardinality(PatternStarts(arg)) = 1) =>
        LET p == CHOOSE q \in PatternStarts(arg) : TRUE
            fragment == SubSeq(arg, 1, p - 1)
            longform == AdeftSearch(trie, FragmentKey(fragment))
        IN (/\ longform # None
            /\ Len(longform[1]) <= Len(fragment)
            /\ SubSeq(fragment, Len(fragment) - Len(longform[1]) + 1, Len(fragment))
                    = longform[1])
           => /\ ~ret.raised
              /\ ret.text = SubSeq(fragment, 1, Len(fragment) - Len(longform[1]))
                                \o <<Shortform>> \o After(arg, p)

\* `part` stands somewhere in `text`, in one piece
Contains(text, part) == \E p \in 1..(Len(text) + 1) : MatchesAt(text, part, p)

\* C4: a fragment the search finds no longform for is left as it is, also in a
\* text with another fragment that does match.  Stated for a text with two
\* defining patterns, the first one matching and the second one not: the
\* words between the two patterns are still there, in one piece and followed
\* by the shortform, in the text returned.
C4_UnmatchedFragmentUntouched ==
    (op = "strip" /\ Cardinality(PatternStarts(arg)) = 2) =>
        LET p1 == CHOOSE q \in PatternStarts(arg) : \A r \in PatternStarts(arg) : q <= r
            p2 == CHOOSE q \in PatternStarts(arg) : \A r \in PatternStarts(arg) : r <= q
            between == SubSeq(arg, p1 + Len(DefiningPattern), p2 - 1)
        IN (/\ AdeftSearch(trie, FragmentKey(SubSeq(arg, 1, p1 - 1))) # None
            /\ AdeftSearch(trie, FragmentKey(SubSeq(arg, 1, p2 - 1))) = None
            /\ \A k \in 1..Len(between) : ~IsPunct(between[k]))
           => /\ ~ret.raised
              /\ Contains(ret.text, between \o <<Shortform>>)

\* C5: strip_defining_patterns is idempotent: applied to its own result it
\* returns that result.
C5_StripIdempotent ==
    op = "restrip" => (~ret.raised /\ ret.text = arg)

====
